---- MODULE Spec2Model ----
(***************************************************************************)
(* A model of xmlbuilder3 (src/xmlbuilder3/__init__.py): XMLNode, the      *)
(* XMLBuilder document with its scope stack, and the rendering walk        *)
(* XMLNode._toxml driven by tobytes.                                       *)
(*                                                                         *)
(* Nodes are heap objects 1..nn; node 1 is the root the document creates.  *)
(* A Python value is a record [ty, s, n]: a str (s), an int, or a          *)
(* reference to the XMLNode n.                                             *)
(*                                                                         *)
(* An operation that raises leaves its error in `pending` until the caller *)
(* handles it (Catch); `last` is the operation the caller last made.       *)
(*                                                                         *)
(* Spec runs every operation, the stack driven by XMLBuilder.__call__      *)
(* directly (which is all XMLNode.__enter__ and __exit__ do).  SpecScoped  *)
(* drives the stack by with statements only; `withs` holds the open        *)
(* blocks, each with the stack found when it was entered.                  *)
(***************************************************************************)
EXTENDS Integers, Sequences, FiniteSets, TLC

\* ---- bounds of the model ----
MaxNodes == 3      \* XMLNode objects ever created, the root included
MaxChilds == 2     \* entries of all the _childs lists of the document together
MaxAttrs == 1      \* entries of all the _attrs dicts of the document together
MaxDepth == 2      \* entries of XMLBuilder._stack under direct calls
MaxWith == 2       \* with-blocks open at once
MaxArgs == 2       \* positional arguments of one call

VARIABLES nn, tag, childs, attrs, stack, withs, pending, last

vars == <<nn, tag, childs, attrs, stack, withs, pending, last>>

Root == 1

\* ---- Python values ----
StrV(s) == [ty |-> "str", s |-> s, n |-> 0]
IntV == [ty |-> "int", s |-> "", n |-> 7]
NodeV(i) == [ty |-> "node", s |-> "", n |-> i]

RootTags == {"root"}
Names == {"a", "_ipython_x"}
Texts == {"t"}
Keys == {"k"}
AttrTexts == {"v"}

\* the values a caller passes as positional arguments
ArgVals == {StrV(s) : s \in Texts} \cup {IntV} \cup {NodeV(i) : i \in 1..nn}
\* the values a caller passes as attribute values and as attribute names
KwVals == {StrV(s) : s \in AttrTexts} \cup {IntV}
KeyVals == {StrV(s) : s \in Keys}
ItemKeys == KeyVals \cup {IntV}

\* *args of at most `room` values
ArgTuples(room) ==
    UNION {[1..k -> ArgVals] : k \in 0..(IF room < MaxArgs THEN room ELSE MaxArgs)}
\* **kwargs: a dict in insertion order, its names always strings
KwDicts == {<<>>} \cup {<<[k |-> key, v |-> val]>> : key \in KeyVals, val \in KwVals}

EmptyAttrs == [k \in {} |-> ""]

\* the characters of the names a caller uses
ReservedPrefix == <<"_", "i", "p", "y", "t", "h", "o", "n", "_">>
Chars(name) ==
    CASE name = "a" -> <<"a">>
      [] name = "_ipython_" -> ReservedPrefix
      [] name = "_ipython_x" -> ReservedPrefix \o <<"x">>
      [] name = "_ipython" -> SubSeq(ReservedPrefix, 1, 8)
      [] name = "x_ipython_" -> <<"x">> \o ReservedPrefix

\* str.startswith
StartsWith(str, prefix) ==
    /\ Len(prefix) <= Len(str)
    /\ SubSeq(str, 1, Len(prefix)) = prefix

\* the names a caller uses around the reserved prefix
NamesWide == {"_ipython_", "_ipython_x", "_ipython", "x_ipython_"}

\* a test for the bare prefix only
IsReservedExact(name) == Chars(name) = ReservedPrefix

\* name.startswith('_ipython_')
IsReserved(name) == StartsWith(Chars(name), ReservedPrefix)

\* ---- XMLNode._xml_update ----
\* a validation that looks at the first positional argument only
BadArgFirstOnly(args) == Len(args) > 0 /\ args[1].ty \notin {"str", "node"}

\* some arg is not isinstance(arg, (str, XMLNode))
BadArg(args) == \E i \in 1..Len(args) : args[i].ty \notin {"str", "node"}

BadItems(kwargs) ==
    {i \in 1..Len(kwargs) : kwargs[i].v.ty # "str" \/ kwargs[i].k.ty # "str"}

KwErr(kwargs) ==
    IF BadItems(kwargs) = {} THEN "none"
    ELSE LET i == CHOOSE j \in BadItems(kwargs) : \A m \in BadItems(kwargs) : j <= m
         IN IF kwargs[i].v.ty # "str" THEN "InvalidAttributeValue"
            ELSE "InvalidAttributeName"

\* an update that keeps the value a name already has (dict.setdefault)
AttrsUpdateKeepFirst(a, kwargs) ==
    LET ks == {kwargs[i].k.s : i \in 1..Len(kwargs)}
        firstOf(k) == CHOOSE i \in 1..Len(kwargs) :
                        /\ kwargs[i].k.s = k
                        /\ \A j \in 1..Len(kwargs) : kwargs[j].k.s = k => i <= j
    IN [k \in (DOMAIN a) \cup ks |->
            IF k \in DOMAIN a THEN a[k] ELSE kwargs[firstOf(k)].v.s]

\* dict.update: later items overwrite earlier ones and the stored value
AttrsUpdate(a, kwargs) ==
    LET ks == {kwargs[i].k.s : i \in 1..Len(kwargs)}
        lastOf(k) == CHOOSE i \in 1..Len(kwargs) :
                        /\ kwargs[i].k.s = k
                        /\ \A j \in 1..Len(kwargs) : kwargs[j].k.s = k => j <= i
    IN [k \in (DOMAIN a) \cup ks |->
            IF k \in ks THEN kwargs[lastOf(k)].v.s ELSE a[k]]

\* an update that puts the new children in front of the old ones
xml_updatePrepending(n, args, kwargs) ==
    IF BadArg(args)
    THEN [childs |-> childs[n], attrs |-> attrs[n], err |-> "InvalidArgumentType"]
    ELSE LET cs == args \o childs[n]
         IN IF KwErr(kwargs) # "none"
            THEN [childs |-> cs, attrs |-> attrs[n], err |-> KwErr(kwargs)]
            ELSE [childs |-> cs, attrs |-> AttrsUpdate(attrs[n], kwargs),
                  err |-> "none"]

\* the node's _childs and _attrs after the call, and the error it raises
xml_update(n, args, kwargs) ==
    IF BadArg(args)
    THEN [childs |-> childs[n], attrs |-> attrs[n], err |-> "InvalidArgumentType"]
    ELSE LET cs == childs[n] \o args
         IN IF KwErr(kwargs) # "none"
            THEN [childs |-> cs, attrs |-> attrs[n], err |-> KwErr(kwargs)]
            ELSE [childs |-> cs, attrs |-> AttrsUpdate(attrs[n], kwargs),
                  err |-> "none"]

\* the sizes the bounds are about
RECURSIVE SumChilds(_)
SumChilds(i) == IF i = 0 THEN 0 ELSE Len(childs[i]) + SumChilds(i - 1)
RECURSIVE SumAttrs(_)
SumAttrs(i) == IF i = 0 THEN 0 ELSE Cardinality(DOMAIN attrs[i]) + SumAttrs(i - 1)
TotalChilds == SumChilds(nn)
TotalAttrs == SumAttrs(nn)

\* the call's result r put on the node n
Apply(n, r) ==
    /\ childs' = [childs EXCEPT ![n] = r.childs]
    /\ attrs' = [attrs EXCEPT ![n] = r.attrs]
    /\ pending' = r.err
    /\ UNCHANGED <<nn, tag>>

Update(n, args, kwargs) ==
    LET r == xml_update(n, args, kwargs)
    IN /\ TotalChilds + Len(args) <= MaxChilds
       /\ TotalAttrs + Cardinality(DOMAIN r.attrs) - Cardinality(DOMAIN attrs[n]) <= MaxAttrs
       /\ Apply(n, r)

\* ---- XMLNode._toxml ----
Ev(e, t, a, s) == [e |-> e, tag |-> t, attrs |-> a, text |-> s]
StartEv(n) == Ev("start", tag[n], attrs[n], "")
EndEv(n) == Ev("end", tag[n], EmptyAttrs, "")
DataEv(s) == Ev("data", "", EmptyAttrs, s)

\* the interpreter's recursion limit, scaled to the heap: a walk deeper than
\* the number of nodes is a walk round a cycle, which never ends by itself
RecursionLimit == MaxNodes + 1

RECURSIVE toxml(_, _)
RECURSIVE toxmlChilds(_, _, _)

\* the events of the children cs[i..], or ok = FALSE on RecursionError
toxmlChilds(cs, i, fuel) ==
    IF i > Len(cs) THEN [ok |-> TRUE, ev |-> <<>>]
    ELSE LET first == IF cs[i].ty = "str"
                      THEN [ok |-> TRUE, ev |-> <<DataEv(cs[i].s)>>]
                      ELSE toxml(cs[i].n, fuel)
         IN IF ~first.ok THEN [ok |-> FALSE, ev |-> <<>>]
            ELSE LET rest == toxmlChilds(cs, i + 1, fuel)
                 IN [ok |-> rest.ok, ev |-> first.ev \o rest.ev]

\* a walk that closes the element before it renders the children
toxmlEndFirst(n, fuel) ==
    IF fuel = 0 THEN [ok |-> FALSE, ev |-> <<>>]
    ELSE LET body == toxmlChilds(childs[n], 1, fuel - 1)
         IN [ok |-> body.ok, ev |-> <<StartEv(n), EndEv(n)>> \o body.ev]

toxml(n, fuel) ==
    IF fuel = 0 THEN [ok |-> FALSE, ev |-> <<>>]
    ELSE LET body == toxmlChilds(childs[n], 1, fuel - 1)
         IN [ok |-> body.ok, ev |-> <<StartEv(n)>> \o body.ev \o <<EndEv(n)>>]

\* ---- the state after XMLBuilder(root_name, *args, **kwargs) ----
\* what the caller last called: the operation, the Node it was called on
\* (0 for the document), the events a rendering returned, and the events
\* of the rendering made just before it, if there was one
OpOn(o, n) == [op |-> o, n |-> n, out |-> <<>>, prev |-> <<>>]
Op(o) == OpOn(o, 0)

Init ==
    /\ nn = 1
    /\ tag \in [{Root} -> RootTags]
    /\ childs \in [{Root} -> {<<>>} \cup {<<StrV(s)>> : s \in Texts}]
    /\ attrs \in [{Root} -> {EmptyAttrs} \cup {[k \in Keys |-> "v"]}]
    /\ stack = <<Root>>
    /\ withs = <<>>
    /\ pending = "none"
    /\ last = Op("init")

\* ---- XMLNode.__getattr__ ----
\* a __getattr__ that hands back the child it already made for the name
GetattrMemo(n, name) ==
    IF IsReserved(name)
    THEN /\ pending' = "AttributeNotFound"
         /\ UNCHANGED <<nn, tag, childs, attrs>>
    ELSE IF \E i \in 1..Len(childs[n]) :
                childs[n][i].ty = "node" /\ tag[childs[n][i].n] = name
    THEN /\ pending' = "none"
         /\ UNCHANGED <<nn, tag, childs, attrs>>
    ELSE /\ nn < MaxNodes
         /\ TotalChilds < MaxChilds
         /\ nn' = nn + 1
         /\ tag' = tag @@ ((nn + 1) :> name)
         /\ childs' = [childs EXCEPT ![n] = Append(@, NodeV(nn + 1))]
                          @@ ((nn + 1) :> <<>>)
         /\ attrs' = attrs @@ ((nn + 1) :> EmptyAttrs)
         /\ pending' = "none"

\* a __getattr__ that makes the node and forgets to append it
GetattrDetached(n, name) ==
    IF IsReserved(name)
    THEN /\ pending' = "AttributeNotFound"
         /\ UNCHANGED <<nn, tag, childs, attrs>>
    ELSE /\ nn < MaxNodes
         /\ TotalChilds < MaxChilds
         /\ nn' = nn + 1
         /\ tag' = tag @@ ((nn + 1) :> name)
         /\ childs' = childs @@ ((nn + 1) :> <<>>)
         /\ attrs' = attrs @@ ((nn + 1) :> EmptyAttrs)
         /\ pending' = "none"

GetattrOn(n, name) ==
    IF IsReserved(name)
    THEN /\ pending' = "AttributeNotFound"
         /\ UNCHANGED <<nn, tag, childs, attrs>>
    ELSE /\ nn < MaxNodes
         /\ TotalChilds < MaxChilds
         /\ nn' = nn + 1
         /\ tag' = tag @@ ((nn + 1) :> name)
         /\ childs' = [childs EXCEPT ![n] = Append(@, NodeV(nn + 1))]
                          @@ ((nn + 1) :> <<>>)
         /\ attrs' = attrs @@ ((nn + 1) :> EmptyAttrs)
         /\ pending' = "none"

NodeGetattr(n, name) ==
    /\ pending = "none"
    /\ GetattrOn(n, name)
    /\ last' = OpOn("getattr", n)
    /\ UNCHANGED <<stack, withs>>

\* ---- XMLNode.__call__, __setitem__, __lshift__ ----
NodeCall(n, args, kwargs) ==
    /\ pending = "none"
    /\ Update(n, args, kwargs)
    /\ last' = OpOn("call", n)
    /\ UNCHANGED <<stack, withs>>

NodeSetitem(n, name, val) ==
    /\ pending = "none"
    /\ Update(n, <<>>, <<[k |-> name, v |-> val]>>)
    /\ last' = OpOn("setitem", n)
    /\ UNCHANGED <<stack, withs>>

NodeLshift(n, val) ==
    /\ pending = "none"
    /\ Update(n, <<val>>, <<>>)
    /\ last' = OpOn("lshift", n)
    /\ UNCHANGED <<stack, withs>>

\* ---- attribute writes over two names and two values ----
KeysWide == {"k", "j"}
AttrTextsWide == {"v", "w"}
KwValsWide == {StrV(s) : s \in AttrTextsWide} \cup {IntV}
ItemKeysWide == {StrV(s) : s \in KeysWide} \cup {IntV}
KwItemsWide == {[k |-> StrV(key), v |-> val] : key \in KeysWide, val \in KwValsWide}
\* **kwargs of one or two names
KwPairsWide ==
    {<<>>} \cup {<<x>> : x \in KwItemsWide}
           \cup {<<x, y>> : x \in KwItemsWide, y \in KwItemsWide}
KwDictsWide == {d \in KwPairsWide : Len(d) < 2 \/ d[1].k # d[2].k}

\* XMLNode.__call__ with named arguments only
AttrCall(n, kwargs) ==
    /\ pending = "none"
    /\ Apply(n, xml_update(n, <<>>, kwargs))
    /\ last' = OpOn("call", n)
    /\ UNCHANGED <<stack, withs>>

\* XMLNode.__setitem__
AttrSetitem(n, name, val) ==
    /\ pending = "none"
    /\ Apply(n, xml_update(n, <<>>, <<[k |-> name, v |-> val]>>))
    /\ last' = OpOn("setitem", n)
    /\ UNCHANGED <<stack, withs>>

\* ---- XMLBuilder ----
\* a proxy that forwards to the bottom of the stack
TopFirst == stack[1]

\* self._stack[-1]
Top == stack[Len(stack)]

Pop(s) == SubSeq(s, 1, Len(s) - 1)

\* XMLBuilder.__getattr__
DocGetattr(name) ==
    /\ pending = "none"
    /\ IF IsReserved(name)
       THEN /\ pending' = "AttributeNotFound"
            /\ UNCHANGED <<nn, tag, childs, attrs>>
       ELSE IF stack = <<>>
       THEN /\ pending' = "IndexError"
            /\ UNCHANGED <<nn, tag, childs, attrs>>
       ELSE GetattrOn(Top, name)
    /\ last' = Op("doc_getattr")
    /\ UNCHANGED <<stack, withs>>

\* XMLBuilder.__lshift__
DocLshift(val) ==
    /\ pending = "none"
    /\ IF stack = <<>>
       THEN /\ pending' = "IndexError"
            /\ UNCHANGED <<nn, tag, childs, attrs>>
       ELSE Update(Top, <<val>>, <<>>)
    /\ last' = Op("doc_lshift")
    /\ UNCHANGED <<stack, withs>>

\* the options the module's documentation lists
Options == {"formatted", "tabstep", "encoding", "xml_header", "builder"}

\* x[option_name]: XMLBuilder defines no __getitem__, and indexing looks
\* the method up on the type, past __getattr__
DocGetitem(opt) ==
    /\ pending = "none"
    /\ pending' = "TypeError"
    /\ last' = Op("doc_getitem")
    /\ UNCHANGED <<nn, tag, childs, attrs, stack, withs>>

\* x[option_name] = new_val: XMLBuilder defines no __setitem__
DocSetitem(opt, val) ==
    /\ pending = "none"
    /\ pending' = "TypeError"
    /\ last' = Op("doc_setitem")
    /\ UNCHANGED <<nn, tag, childs, attrs, stack, withs>>

\* a __call__ whose pop takes the stack's first entry, not its last
CallOnPopFront(obj) ==
    IF obj = 0
    THEN IF stack = <<>>
         THEN /\ pending' = "IndexError"
              /\ stack' = stack
         ELSE /\ stack' = Tail(stack)
              /\ pending' = pending
    ELSE /\ stack' = Append(stack, obj)
         /\ pending' = pending

\* XMLBuilder.__call__: obj = 0 stands for None
CallOn(obj) ==
    IF obj = 0
    THEN IF stack = <<>>
         THEN /\ pending' = "IndexError"
              /\ stack' = stack
         ELSE /\ stack' = Pop(stack)
              /\ pending' = pending
    ELSE /\ stack' = Append(stack, obj)
         /\ pending' = pending

DocCall(obj) ==
    /\ pending = "none"
    /\ CallOn(obj)
    /\ Len(stack) < MaxDepth \/ obj = 0
    /\ last' = Op(IF obj = 0 THEN "pop" ELSE "push")
    /\ UNCHANGED <<nn, tag, childs, attrs, withs>>

\* ---- the with statement over XMLNode.__enter__ / __exit__ ----
WithEnter(n) ==
    /\ pending = "none"
    /\ Len(withs) < MaxWith
    /\ CallOn(n)
    /\ withs' = Append(withs, [node |-> n, saved |-> stack])
    /\ last' = Op("enter")
    /\ UNCHANGED <<nn, tag, childs, attrs>>

\* an exit that pops only when the body ended normally
WithExitSkipsOnError ==
    /\ withs # <<>>
    /\ IF pending = "none" THEN CallOn(0) ELSE UNCHANGED <<stack, pending>>
    /\ withs' = Pop(withs)
    /\ last' = Op("exit")
    /\ UNCHANGED <<nn, tag, childs, attrs>>

\* leaving the innermost block, normally or with an error in flight:
\* __exit__ returns None, so the error keeps propagating
WithExit ==
    /\ withs # <<>>
    /\ CallOn(0)
    /\ withs' = Pop(withs)
    /\ last' = Op("exit")
    /\ UNCHANGED <<nn, tag, childs, attrs>>

\* the caller handles the error an operation raised
Catch ==
    /\ pending # "none"
    /\ pending' = "none"
    /\ last' = Op("catch")
    /\ UNCHANGED <<nn, tag, childs, attrs, stack, withs>>

\* ---- tobytes ----
\* what tobytes returns or raises
RenderResult ==
    IF stack = <<>>
    THEN /\ pending' = "IndexError"
         /\ last' = Op("render")
    ELSE LET r == toxml(stack[1], RecursionLimit)
         IN IF r.ok
            THEN /\ pending' = "none"
                 /\ last' = [op |-> "render", n |-> 0, out |-> r.ev,
                             prev |-> IF last.op = "render" THEN last.out ELSE <<>>]
            ELSE /\ pending' = "RecursionError"
                 /\ last' = Op("render")

\* a rendering that closes the scopes that are open
RenderClosingScopes ==
    /\ pending = "none"
    /\ RenderResult
    /\ stack' = IF stack = <<>> THEN stack ELSE <<stack[1]>>
    /\ UNCHANGED <<nn, tag, childs, attrs, withs>>

\* a rendering that uses up the children of the Node it starts at
RenderDraining ==
    /\ pending = "none"
    /\ RenderResult
    /\ childs' = IF stack = <<>> THEN childs ELSE [childs EXCEPT ![stack[1]] = <<>>]
    /\ UNCHANGED <<nn, tag, attrs, stack, withs>>

Render ==
    /\ pending = "none"
    /\ RenderResult
    /\ UNCHANGED <<nn, tag, childs, attrs, stack, withs>>

NodeOps ==
    \/ \E n \in 1..nn, name \in Names : NodeGetattr(n, name)
    \/ \E n \in 1..nn, args \in ArgTuples(MaxChilds - TotalChilds), kwargs \in KwDicts :
            NodeCall(n, args, kwargs)
    \/ \E n \in 1..nn, name \in ItemKeys, val \in KwVals : NodeSetitem(n, name, val)
    \/ \E n \in 1..nn, val \in ArgVals : NodeLshift(n, val)
    \/ \E name \in Names : DocGetattr(name)
    \/ \E val \in ArgVals : DocLshift(val)
    \/ Catch
    \/ Render

\* every public operation; XMLNode.__enter__ and __exit__ called directly are
\* DocCall(n) and DocCall(0)
Next ==
    \/ NodeOps
    \/ \E obj \in 0..nn : DocCall(obj)

Spec == Init /\ [][Next]_vars

\* the scope methods called by with statements only
NextScoped ==
    \/ NodeOps
    \/ \E n \in 1..nn : WithEnter(n)
    \/ WithExit

SpecScoped == Init /\ [][NextScoped]_vars

\* the document's operations with indexed access to its options
NextOptions ==
    \/ \E opt \in Options : DocGetitem(opt)
    \/ \E opt \in Options, val \in KwVals : DocSetitem(opt, val)
    \/ \E name \in Names : DocGetattr(name)
    \/ \E val \in ArgVals : DocLshift(val)
    \/ \E obj \in 0..nn : DocCall(obj)
    \/ Catch

SpecOptions == Init /\ [][NextOptions]_vars

\* dynamic access by names around the reserved prefix
NextNames ==
    \/ \E n \in 1..nn, name \in NamesWide : NodeGetattr(n, name)
    \/ \E name \in NamesWide : DocGetattr(name)
    \/ \E obj \in 0..nn : DocCall(obj)
    \/ Catch

SpecNames == Init /\ [][NextNames]_vars

\* attribute writes on the nodes of the document
NextAttrs ==
    \/ \E n \in 1..nn, kwargs \in KwDictsWide : AttrCall(n, kwargs)
    \/ \E n \in 1..nn, name \in ItemKeysWide, val \in KwValsWide : AttrSetitem(n, name, val)
    \/ Catch

SpecAttrs == Init /\ [][NextAttrs]_vars

\* ---------------------------------------------------------------------
\* Scope stack
\* ---------------------------------------------------------------------

\* C1: in every reachable state the scope stack is non-empty and its first
\* entry is the root Node.
C1_StackHoldsRoot == Len(stack) >= 1 /\ stack[1] = Root

\* C2: a pop (__call__ with None) while the stack is exactly [root] fails
\* with ScopeUnderflow and leaves the stack [root].
C2_PopAtRootFails ==
    [][(last'.op = "pop" /\ stack = <<Root>>)
         => (pending' = "ScopeUnderflow" /\ stack' = <<Root>>)]_vars

\* the frame of the innermost open with-block
TopWith == withs[Len(withs)]

\* C3: when the body of a with-block on N has failed, leaving the block
\* still pops: the stack is what it was before N was entered, and the
\* error is still in flight afterwards.
C3_ExitPopsOnError ==
    [][(last'.op = "exit" /\ pending # "none")
         => /\ stack' = TopWith.saved
            /\ pending' = pending
            /\ withs' = Pop(withs)]_vars

C3_Witness ==
    /\ last.op = "exit"
    /\ pending = "InvalidArgumentType"
    /\ withs = <<>>
    /\ nn >= 2

\* every open with-block sits on the stack where it was entered
OpenScopesInPlace ==
    /\ Len(stack) = Len(withs) + 1
    /\ \A i \in 1..Len(withs) :
          /\ withs[i].saved = SubSeq(stack, 1, i)
          /\ stack[i + 1] = withs[i].node

\* C4: with-blocks are balanced: whatever child-creating operations run
\* inside, the blocks that are open are the stack's entries above the
\* ones found at entry, and a block that ends normally leaves the stack
\* exactly as it was before it was entered (so enter A, enter B, exit B,
\* exit A restores the stack found before A).
C4_BalancedScopesRestore ==
    [][/\ OpenScopesInPlace'
       /\ (last'.op = "exit" /\ pending = "none")
            => (stack' = TopWith.saved /\ pending' = "none")]_vars

C4_Witness ==
    /\ last.op = "exit"
    /\ pending = "none"
    /\ Len(withs) = 1
    /\ withs[1].node = 2
    /\ childs[2] = <<NodeV(3)>>
    /\ stack = <<Root, 2>>

\* what a step leaves alone among the nodes that existed before it
SameChildsExcept(n) == \A m \in (1..nn) \ {n} : childs'[m] = childs[m]
SameAttrs == \A m \in 1..nn : attrs'[m] = attrs[m]
SameTags == \A m \in 1..nn : tag'[m] = tag[m]

\* C5: a child access or << on the Document that succeeds acts on the
\* Node on top of the stack at that moment: the new child or value is the
\* last child of that Node, every other Node keeps its children, every
\* Node keeps its attributes, and the stack is unchanged.
C5_ProxyActsOnTop ==
    [][(last'.op \in {"doc_getattr", "doc_lshift"} /\ pending' = "none")
         => /\ stack # <<>>
            /\ stack' = stack
            /\ SameChildsExcept(stack[Len(stack)])
            /\ SameAttrs
            /\ LET top == stack[Len(stack)]
                   new == childs'[top][Len(childs'[top])]
               IN /\ Len(childs'[top]) = Len(childs[top]) + 1
                  /\ SubSeq(childs'[top], 1, Len(childs[top])) = childs[top]
                  /\ IF last'.op = "doc_getattr"
                     THEN nn' = nn + 1 /\ new = NodeV(nn + 1)
                     ELSE nn' = nn /\ new.ty \in {"str", "node"}]_vars

C5_Witness ==
    /\ last.op = "doc_getattr"
    /\ pending = "none"
    /\ stack = <<Root, 2>>
    /\ childs[2] = <<NodeV(3)>>
    /\ childs[Root] = <<NodeV(2)>>

\* ---------------------------------------------------------------------
\* Building the tree
\* ---------------------------------------------------------------------

\* C6: child access is never memoized: an access of a non-reserved name on
\* a Node makes a new Node (an identity no Node had), empty, with the name
\* as its tag, appended to the end of that Node's children, whether or not
\* a child of that name exists; and a mutation call on one Node leaves the
\* children and attributes of every other Node (its siblings included) as
\* they were.
C6_GetattrNeverMemoized ==
    [][/\ (last'.op = "getattr" /\ pending' = "none")
            => /\ nn' = nn + 1
               /\ tag'[nn + 1] \in {x \in Names : ~IsReserved(x)}
               /\ childs'[nn + 1] = <<>>
               /\ attrs'[nn + 1] = EmptyAttrs
               /\ SameAttrs /\ SameTags
               /\ childs'[last'.n] = Append(childs[last'.n], NodeV(nn + 1))
               /\ SameChildsExcept(last'.n)
       /\ last'.op \in {"call", "setitem", "lshift"}
            => /\ SameChildsExcept(last'.n)
               /\ \A m \in (1..nn) \ {last'.n} : attrs'[m] = attrs[m]
               /\ nn' = nn]_vars

\* two siblings of one tag, the first mutated since, the second untouched
C6_Witness ==
    /\ last.op = "setitem"
    /\ pending = "none"
    /\ childs[Root] = <<NodeV(2), NodeV(3)>>
    /\ tag[2] = tag[3]
    /\ attrs[2] # EmptyAttrs
    /\ attrs[3] = EmptyAttrs /\ childs[3] = <<>>

\* C7: a mutation call that fails with InvalidArgumentType or
\* InvalidAttributeValue leaves the children and the attributes of every
\* Node exactly as they were.
C7_FailedCallIsNoOp ==
    [][(/\ last'.op \in {"call", "setitem", "lshift", "doc_lshift"}
        /\ pending' \in {"InvalidArgumentType", "InvalidAttributeValue"})
         => (childs' = childs /\ attrs' = attrs)]_vars

\* a positional argument that is neither a string nor a Node
Offending(v) == v = IntV
HasOffending(args) == \E i \in 1..Len(args) : Offending(args[i])

\* C8: a call or << whose positional arguments hold a value that is
\* neither a string nor a Node, at any position, fails with
\* InvalidArgumentType and appends nothing to any Node's children.
C8_BadPositionalRejected ==
    [][\/ pending' = "InvalidArgumentType" /\ childs' = childs /\ attrs' = attrs
       \/ ~ \/ /\ last'.op = "call"
              /\ \E args \in ArgTuples(MaxChilds - TotalChilds), kwargs \in KwDicts :
                    HasOffending(args) /\ NodeCall(last'.n, args, kwargs)
           \/ /\ last'.op = "lshift"
              /\ \E val \in ArgVals : Offending(val) /\ NodeLshift(last'.n, val)
           \/ /\ last'.op = "doc_lshift" /\ stack # <<>>
              /\ \E val \in ArgVals : Offending(val) /\ DocLshift(val)]_vars

C8_Witness ==
    /\ last.op = "call"
    /\ pending = "InvalidArgumentType"
    /\ TotalChilds = 0

\* ---------------------------------------------------------------------
\* Rendering
\* ---------------------------------------------------------------------

RECURSIVE MatchNode(_, _, _, _)
RECURSIVE MatchChilds(_, _, _, _, _)

\* ev[i..] begins with the rendering of the children cs[j..]: the index
\* after it, or 0
MatchChilds(cs, j, ev, i, fuel) ==
    IF j > Len(cs) THEN i
    ELSE IF cs[j].ty = "str"
    THEN IF i <= Len(ev) /\ ev[i] = DataEv(cs[j].s)
         THEN MatchChilds(cs, j + 1, ev, i + 1, fuel)
         ELSE 0
    ELSE LET k == MatchNode(cs[j].n, ev, i, fuel)
         IN IF k = 0 THEN 0 ELSE MatchChilds(cs, j + 1, ev, k, fuel)

\* ev[i..] begins with one start event of n (tag, current attributes), the
\* events of its children in stored order, one end event of n: the index
\* after it, or 0
MatchNode(n, ev, i, fuel) ==
    IF fuel = 0 \/ i > Len(ev) THEN 0
    ELSE IF ev[i] # StartEv(n) THEN 0
    ELSE LET k == MatchChilds(childs[n], 1, ev, i + 1, fuel - 1)
         IN IF k = 0 \/ k > Len(ev) THEN 0
            ELSE IF ev[k] # EndEv(n) THEN 0
            ELSE k + 1

RECURSIVE Nested(_, _, _)
\* every end event closes the innermost open start event, of the same tag
Nested(ev, i, open) ==
    IF i > Len(ev) THEN open = <<>>
    ELSE IF ev[i].e = "start" THEN Nested(ev, i + 1, Append(open, ev[i].tag))
    ELSE IF ev[i].e = "end"
    THEN /\ open # <<>>
         /\ open[Len(open)] = ev[i].tag
         /\ Nested(ev, i + 1, SubSeq(open, 1, Len(open) - 1))
    ELSE open # <<>> /\ Nested(ev, i + 1, open)

\* C9: the events a rendering emitted are exactly: the start event of the
\* rendered Node with its tag and attributes, for each child in stored
\* order its data event or its complete rendering, the end event of the
\* Node; so the sequence is properly nested.
C9_RenderWalksTree ==
    (last.op = "render" /\ pending = "none")
      => /\ MatchNode(stack[1], last.out, 1, nn + 1) = Len(last.out) + 1
         /\ Nested(last.out, 1, <<>>)

C9_Witness ==
    /\ last.op = "render"
    /\ pending = "none"
    /\ stack[1] = Root
    /\ attrs[Root] # EmptyAttrs
    /\ childs[Root] = <<StrV("t"), NodeV(2)>>
    /\ Len(last.out) = 5

\* C11: a rendering, whether it returns or raises and whatever scopes are
\* open, leaves every Node's tag, children and attributes and the scope
\* stack exactly as they were.
C11_RenderReadOnly ==
    [][last'.op = "render"
         => (nn' = nn /\ tag' = tag /\ childs' = childs /\ attrs' = attrs
             /\ stack' = stack /\ withs' = withs)]_vars

C11_Witness ==
    /\ last.op = "render"
    /\ pending = "none"
    /\ stack = <<Root, 2>>
    /\ childs[Root] = <<StrV("t"), NodeV(2)>>
    /\ Len(last.out) = 5

\* C12: of two renderings with no operation between them the second
\* returns the events the first returned.
C12_RenderIdempotent ==
    (last.op = "render" /\ pending = "none" /\ last.prev # <<>>)
      => last.out = last.prev

C12_Witness ==
    /\ last.op = "render"
    /\ pending = "none"
    /\ last.prev # <<>>
    /\ childs[Root] = <<StrV("t"), NodeV(2)>>
    /\ Len(last.out) = 5

\* C17: rendering terminates: a rendering of a Document whose stack still
\* begins with the root completes, and the last event it emitted is the
\* end event of the root.
C17_RenderCompletes ==
    (last.op = "render" /\ stack # <<>> /\ stack[1] = Root)
      => /\ pending = "none"
         /\ last.out # <<>>
         /\ last.out[Len(last.out)] = EndEv(Root)

\* C19: rendering starts at the root whatever scopes are open: a completed
\* rendering of a Document with a non-empty stack is the rendering of the
\* tree under the root, beginning with the start event of the root.
C19_RenderStartsAtRoot ==
    (last.op = "render" /\ pending = "none" /\ stack # <<>>)
      => /\ last.out[1] = StartEv(Root)
         /\ MatchNode(Root, last.out, 1, nn + 1) = Len(last.out) + 1

\* ---------------------------------------------------------------------
\* Reserved names
\* ---------------------------------------------------------------------

\* C14: dynamic access, on a Node or on the Document, by a name that
\* begins with "_ipython_" fails with AttributeNotFound, creates no Node
\* and leaves every children sequence and the stack unchanged.
C14_ReservedNameFails ==
    [][\A name \in {"_ipython_", "_ipython_x"} :
          (DocGetattr(name) \/ \E n \in 1..nn : NodeGetattr(n, name))
            => /\ pending' = "AttributeNotFound"
               /\ nn' = nn
               /\ tag' = tag
               /\ childs' = childs
               /\ stack' = stack]_vars

\* a reserved name was refused on the open child of the root
C14_Witness ==
    /\ pending = "AttributeNotFound"
    /\ last = OpOn("getattr", 2)
    /\ stack = <<Root, 2>>
    /\ childs[2] = <<>>

\* ---------------------------------------------------------------------
\* Options
\* ---------------------------------------------------------------------

\* C15: the Document supports indexed get and set of the recognized
\* options: an indexed read or write of a recognized option completes
\* (a read returning the default or the value last set) and leaves the
\* tree and the stack unchanged.
C15_OptionsIndexed ==
    last.op \in {"doc_getitem", "doc_setitem"} => pending = "none"

\* ---------------------------------------------------------------------
\* Children
\* ---------------------------------------------------------------------

IsPrefix(s, t) == Len(s) <= Len(t) /\ SubSeq(t, 1, Len(s)) = s

\* C16: children are append-only: over every single operation, successful
\* or failing, each Node's children before the operation are a prefix of
\* its children after it.
C16_ChildsAppendOnly ==
    [][\A n \in 1..nn : IsPrefix(childs[n], childs'[n])]_vars

\* a failing call on a Node that keeps its text and its child in order
C16_Witness ==
    /\ last = OpOn("call", Root)
    /\ pending = "InvalidAttributeValue"
    /\ childs[Root] = <<StrV("t"), NodeV(2)>>
    /\ childs[2] = <<>>

\* ---------------------------------------------------------------------
\* Attributes
\* ---------------------------------------------------------------------

WrittenNames(kwargs) == {kwargs[i].k.s : i \in 1..Len(kwargs)}
WrittenValue(kwargs, k) ==
    kwargs[CHOOSE i \in 1..Len(kwargs) : kwargs[i].k.s = k].v.s

\* the step is the successful write of kwargs on the Node n
WriteOf(n, kwargs) ==
    /\ pending' = "none"
    /\ \/ last'.op = "call" /\ AttrCall(n, kwargs)
       \/ /\ last'.op = "setitem" /\ Len(kwargs) = 1
          /\ AttrSetitem(n, kwargs[1].k, kwargs[1].v)

\* C13: attributes are last-write-wins: no step removes a name from a
\* Node; a write that fails changes no attribute; after a successful write
\* each name the call wrote maps to the value the call gave it and every
\* other name keeps its previous value (so each name holds the value of
\* its most recent successful write).
C13_LastWriteWins ==
    [][/\ \A m \in 1..nn : DOMAIN attrs[m] \subseteq DOMAIN attrs'[m]
       /\ pending' # "none" => attrs' = attrs
       /\ last'.op \in {"call", "setitem"}
            => \A kwargs \in KwDictsWide :
                 WriteOf(last'.n, kwargs)
                   => LET n == last'.n
                      IN /\ DOMAIN attrs'[n] = DOMAIN attrs[n] \cup WrittenNames(kwargs)
                         /\ \A k \in DOMAIN attrs'[n] :
                               attrs'[n][k] = IF k \in WrittenNames(kwargs)
                                              THEN WrittenValue(kwargs, k)
                                              ELSE attrs[n][k]]_vars

\* "k" rewritten to "w" by a write that left "j" as it was
C13_Witness ==
    /\ last.op = "setitem"
    /\ pending = "none"
    /\ DOMAIN attrs[Root] = {"k", "j"}
    /\ attrs[Root]["k"] = "w"
    /\ attrs[Root]["j"] = "v"

\* ---------------------------------------------------------------------
\* Ownership
\* ---------------------------------------------------------------------

NodeChilds(n) ==
    {childs[n][i].n : i \in {j \in 1..Len(childs[n]) : childs[n][j].ty = "node"}}

RECURSIVE Descendants(_, _)
Descendants(S, k) ==
    IF k = 0 THEN S
    ELSE Descendants(S \cup UNION {NodeChilds(x) : x \in S}, k - 1)

NoSharing ==
    \A n \in 1..nn, m \in 1..nn :
      \A i \in 1..Len(childs[n]), j \in 1..Len(childs[m]) :
        (childs[n][i].ty = "node" /\ childs[m][j] = childs[n][i])
          => (n = m /\ i = j)

Acyclic == \A n \in 1..nn : n \notin Descendants(NodeChilds(n), nn)

\* C10: the ownership graph is a tree: no Node is a child twice (of two
\* Nodes, or twice of one) and no Node is its own child or descendant.
C10_OwnershipIsTree == NoSharing /\ Acyclic

\* C18: every Node on the stack is part of the document tree: each stack
\* entry is the root or reachable from the root through children (all
\* Nodes here come from dynamic access on the Document or on a Node).
C18_StackInTree ==
    \A i \in 1..Len(stack) : stack[i] \in Descendants({Root}, nn)

\* a grandchild of the root is the open scope
C18_Witness ==
    /\ stack = <<Root, 3>>
    /\ childs[Root] = <<NodeV(2)>>
    /\ childs[2] = <<NodeV(3)>>

====
